---- MODULE Spec2Model ----
(***************************************************************************)
(* Model of the image mosaic collage component (mountImgCollage and the    *)
(* justified layout computeMosaicLayout it renders with).                  *)
(*                                                                         *)
(* A JavaScript number is modelled as an exact rational <<n, d>> in lowest *)
(* terms with d > 0; <<0, 0>> stands for NaN and <<1, 0>>, <<-1, 0>> for   *)
(* the infinities a division by zero yields.  Rounding of IEEE doubles is  *)
(* not modelled: equalities between computed numbers are equalities of     *)
(* the exact values.                                                       *)
(***************************************************************************)
EXTENDS Integers, Sequences, FiniteSets, TLC

VARIABLES
    call,          \* arguments of one computeMosaicLayout invocation
    ret,           \* what that invocation returned, and its local rowLayouts
                   \* (NoRet before it ran)
    part,          \* rows of the partition step run with call.k rows
    state,         \* mountImgCollage: the options record
    loadedRatios,  \* mountImgCollage: measured ratio per source
    pendingLoads,  \* mountImgCollage: the set of sources being probed
    destroyed,     \* mountImgCollage: the destroyed flag
    inflight,      \* Image objects whose onload/onerror has not fired, per source
    target,        \* content of the target element
    last           \* the handler that ran last and what it called

vars == <<call, ret, part, state, loadedRatios, pendingLoads, destroyed,
          inflight, target, last>>

layoutVars == <<call, ret, part>>
mountVars == <<state, loadedRatios, pendingLoads, destroyed, inflight, target, last>>

-----------------------------------------------------------------------------
(* Bounds of the model.                                                    *)

MaxImages == 3

MaxInFlight == 2

-----------------------------------------------------------------------------
(* JavaScript numbers as exact rationals.                                  *)

RECURSIVE Gcd(_, _)
Gcd(a, b) == IF b = 0 THEN a ELSE Gcd(b, a % b)

AbsInt(a) == IF a < 0 THEN -a ELSE a

SignInt(a) == IF a < 0 THEN -1 ELSE IF a = 0 THEN 0 ELSE 1

\* the number n/d; d = 0 gives NaN (0/0) or an infinity
Q(n, d) ==
    IF d = 0 THEN <<SignInt(n), 0>>
    ELSE LET g == Gcd(AbsInt(n), AbsInt(d))
             s == IF d < 0 THEN -1 ELSE 1
         IN  <<(s * n) \div g, (s * d) \div g>>

Num(n) == <<n, 1>>

Zero == <<0, 1>>

One == <<1, 1>>

NaN == <<0, 0>>

\* An operator of numbers takes its operands through Once1, Once2 or Holds2,
\* which hand each operand to the operation as a value: an operand expression
\* is evaluated once however often the operation reads it.
Once1(F(_), a) == CHOOSE r \in {F(x) : x \in {a}} : TRUE

Once2(F(_, _), a, b) == CHOOSE r \in {F(x, y) : x \in {a}, y \in {b}} : TRUE

\* F of the value of e (a LET that evaluates e once)
With(e, F(_)) == CHOOSE r \in {F(x) : x \in {e}} : TRUE

Holds1(P(_), a) == \E x \in {a} : P(x)

Holds2(P(_, _), a, b) == \E x \in {a}, y \in {b} : P(x, y)

IsNaN(a) == a = NaN

IsFinite(a) == a[2] # 0

\* the sum and the product are formed over the least common denominator and
\* with common factors cancelled first, which keeps the integers small
AddExact(a, b) ==
    IF a[2] = 0 \/ b[2] = 0 THEN Q(a[1] * b[2] + b[1] * a[2], a[2] * b[2])
    ELSE LET g == Gcd(a[2], b[2])
         IN  Q(a[1] * (b[2] \div g) + b[1] * (a[2] \div g), (a[2] \div g) * b[2])

Add(a, b) == Once2(AddExact, a, b)

SubExact(a, b) == AddExact(a, <<-b[1], b[2]>>)

Sub(a, b) == Once2(SubExact, a, b)

MulExact(a, b) ==
    IF a[2] = 0 \/ b[2] = 0 THEN Q(a[1] * b[1], a[2] * b[2])
    ELSE LET g1 == Gcd(AbsInt(a[1]), b[2])
             g2 == Gcd(AbsInt(b[1]), a[2])
         IN  Q((a[1] \div g1) * (b[1] \div g2), (a[2] \div g2) * (b[2] \div g1))

Mul(a, b) == Once2(MulExact, a, b)

\* a / b: x/0 is an infinity, 0/0 is NaN
DivExact(a, b) ==
    IF b[1] = 0 THEN <<SignInt(a[1]), 0>>
    ELSE IF b[1] < 0 THEN MulExact(a, <<-b[2], -b[1]>>)
    ELSE MulExact(a, <<b[2], b[1]>>)

Div(a, b) == Once2(DivExact, a, b)

\* a < b; false when either side is NaN
LtExact(a, b) ==
    /\ a # NaN
    /\ b # NaN
    /\ IF a[2] = 0 \/ b[2] = 0 THEN a[1] * b[2] < b[1] * a[2]
       ELSE LET g == Gcd(a[2], b[2])
            IN  a[1] * (b[2] \div g) < b[1] * (a[2] \div g)

Lt(a, b) == Holds2(LtExact, a, b)

LeExact(a, b) == LtExact(a, b) \/ (a # NaN /\ a = b)

Le(a, b) == Holds2(LeExact, a, b)

GtExact(a, b) == LtExact(b, a)

Gt(a, b) == Holds2(GtExact, a, b)

AbsExact(a) == <<AbsInt(a[1]), a[2]>>

Abs(a) == Once1(AbsExact, a)

\* Math.max / Math.min of two numbers
MathMaxExact(a, b) == IF a = NaN \/ b = NaN THEN NaN ELSE IF LtExact(a, b) THEN b ELSE a

MathMax(a, b) == Once2(MathMaxExact, a, b)

MathMinExact(a, b) == IF a = NaN \/ b = NaN THEN NaN ELSE IF LtExact(b, a) THEN b ELSE a

MathMin(a, b) == Once2(MathMinExact, a, b)

\* a number used as a condition: 0 and NaN are falsy
TruthyExact(a) == a # NaN /\ a[1] # 0

Truthy(a) == Holds1(TruthyExact, a)

\* Math.round(Math.sqrt(q)) for q >= 0, searched up to cap: the largest k with
\* k - 1/2 <= sqrt(q), that is (2k - 1)^2 <= 4q.  The caller clamps the result
\* to cap, so the search need not go further.
RoundSqrtExact(q, cap) ==
    LET ok(k) == k = 0 \/ (2 * k - 1) * (2 * k - 1) * q[2] <= 4 * q[1]
    IN  CHOOSE k \in 0..cap : ok(k) /\ \A j \in (k + 1)..cap : ~ok(j)

RoundSqrt(q, cap) == Once2(RoundSqrtExact, q, cap)

-----------------------------------------------------------------------------
(* Sources.  A source string is a sequence of tokens: "/", the decimal     *)
(* digits, the host "picsum.photos" and other text.                        *)

Digits == {"0", "1", "2", "3", "4", "5", "6", "7", "8", "9"}

DigitValue(c) ==
    CASE c = "0" -> 0 [] c = "1" -> 1 [] c = "2" -> 2 [] c = "3" -> 3
      [] c = "4" -> 4 [] c = "5" -> 5 [] c = "6" -> 6 [] c = "7" -> 7
      [] c = "8" -> 8 [] c = "9" -> 9

\* parseInt(s, 10) of a non-empty run of digits
RECURSIVE ParseInt(_)
ParseInt(s) ==
    IF s = <<>> THEN 0
    ELSE 10 * ParseInt(SubSeq(s, 1, Len(s) - 1)) + DigitValue(s[Len(s)])

IsDigitRun(s) == Len(s) > 0 /\ \A i \in 1..Len(s) : s[i] \in Digits

\* the position of the last "/" among the first upto tokens, 0 when none
LastSlash(src, upto) ==
    LET js == {j \in 1..upto : src[j] = "/"}
    IN  IF js = {} THEN 0 ELSE CHOOSE j \in js : \A i \in js : i <= j

\* the match of /picsum\.photos\/.*\/(\d+)\/(\d+)(?:\/)?$/ in src: the two
\* captured digit runs, or <<>> when the pattern does not match
UrlMatch(src) ==
    LET len == Len(src)
        \* (?:\/)?$ : the second digit run ends at e
        e == IF len > 0 /\ src[len] = "/" THEN len - 1 ELSE len
        \* \/(\d+) before it: digit runs hold no "/", so the separators are the
        \* last two "/" before e
        s2 == LastSlash(src, e)
        s1 == IF s2 > 1 THEN LastSlash(src, s2 - 1) ELSE 0
        \* picsum\.photos\/.* before the first separator
        hosts == {p \in 1..len : /\ src[p] = "picsum.photos"
                                 /\ p + 1 <= len /\ src[p + 1] = "/"
                                 /\ p + 2 <= s1}
    IN  IF /\ s1 > 0
           /\ IsDigitRun(SubSeq(src, s1 + 1, s2 - 1))
           /\ IsDigitRun(SubSeq(src, s2 + 1, e))
           /\ hosts # {}
        THEN <<SubSeq(src, s1 + 1, s2 - 1), SubSeq(src, s2 + 1, e)>>
        ELSE <<>>

NoRatio == <<"null">>

getAspectRatioFromUrl(src) ==
    LET match == UrlMatch(src)
    IN  IF match = <<>> THEN NoRatio
        ELSE LET w == ParseInt(match[1])
                 h == ParseInt(match[2])
             IN  IF h = 0 THEN NoRatio ELSE Q(w, h)

-----------------------------------------------------------------------------
(* computeMosaicLayout.                                                    *)

defaultGap == 2

FallbackRatio == Q(3, 2)

\* the ratio resolved with ?? in place of ||: a measured 0 is taken as it is
ResolveRatioNullish(ratios, src) ==
    IF src \in DOMAIN ratios THEN ratios[src]
    ELSE LET u == getAspectRatioFromUrl(src)
         IN  IF u # NoRatio THEN u ELSE FallbackRatio

\* ratios[src] || getAspectRatioFromUrl(src) || 1.5
ResolveRatio(ratios, src) ==
    IF src \in DOMAIN ratios /\ Truthy(ratios[src]) THEN ratios[src]
    ELSE LET u == getAspectRatioFromUrl(src)
         IN  IF u # NoRatio /\ Truthy(u) THEN u ELSE FallbackRatio

\* images.map((src, index) => ({ src, index, ratio }))
PrepareItems(images, ratios) ==
    [i \in 1..Len(images) |->
        [src |-> images[i], index |-> i - 1, ratio |-> ResolveRatio(ratios, images[i])]]

RECURSIVE SumRatio(_)
SumRatio(items) ==
    IF items = <<>> THEN Zero
    ELSE Add(SumRatio(SubSeq(items, 1, Len(items) - 1)), items[Len(items)].ratio)

\* K = max(1, min(round(sqrt(totalRatio / containerRatio)), items.length))
RowCount(items, containerWidth, containerHeight) ==
    LET totalRatio == SumRatio(items)
        containerRatio == Div(containerWidth, containerHeight)
    IN  With(RoundSqrt(Div(totalRatio, containerRatio), Len(items)), LAMBDA K :
            IF K < Len(items) THEN (IF K > 1 THEN K ELSE 1)
            ELSE (IF Len(items) > 1 THEN Len(items) ELSE 1))

\* ClosesRow without the bound on the rows already closed
ClosesRowNoLimit(items, i, K, idealRatioPerRow, rows, currentSum) ==
    LET currentDiff == Abs(Sub(currentSum, idealRatioPerRow))
        nextRatio == items[i + 1].ratio
        nextDiff == Abs(Sub(Add(currentSum, nextRatio), idealRatioPerRow))
    IN  Gt(nextDiff, currentDiff)

\* ClosesRow closing the row also when the two distances are equal
ClosesRowOnEquality(items, i, K, idealRatioPerRow, rows, currentSum) ==
    /\ Len(rows) < K - 1
    /\ LET currentDiff == Abs(Sub(currentSum, idealRatioPerRow))
           nextRatio == items[i + 1].ratio
           nextDiff == Abs(Sub(Add(currentSum, nextRatio), idealRatioPerRow))
       IN  Le(currentDiff, nextDiff)

\* whether the forEach of the partition closes the current row after item i
ClosesRow(items, i, K, idealRatioPerRow, rows, currentSum) ==
    /\ Len(rows) < K - 1
    /\ LET currentDiff == Abs(Sub(currentSum, idealRatioPerRow))
           nextRatio == items[i + 1].ratio
           nextDiff == Abs(Sub(Add(currentSum, nextRatio), idealRatioPerRow))
       IN  Gt(nextDiff, currentDiff)

\* the partition loop with currentSlice not emptied when a row is closed
RECURSIVE PartitionLoopKeepsSlice(_, _, _, _, _, _, _)
PartitionLoopKeepsSlice(items, i, K, idealRatioPerRow, rows, currentSlice, currentSum) ==
    IF i > Len(items) THEN rows
    ELSE LET slice == Append(currentSlice, items[i])
             sum == Add(currentSum, items[i].ratio)
             row == [items |-> slice, sumRatio |-> sum]
         IN  IF i = Len(items) THEN Append(rows, row)
             ELSE IF ClosesRow(items, i, K, idealRatioPerRow, rows, sum)
                  THEN PartitionLoopKeepsSlice(items, i + 1, K, idealRatioPerRow,
                                               Append(rows, row), slice, Zero)
                  ELSE PartitionLoopKeepsSlice(items, i + 1, K, idealRatioPerRow,
                                               rows, slice, sum)

\* the forEach of the partition from item i on (i counts from 1)
RECURSIVE PartitionLoop(_, _, _, _, _, _, _)
PartitionLoop(items, i, K, idealRatioPerRow, rows, currentSlice, currentSum) ==
    IF i > Len(items) THEN rows
    ELSE LET slice == Append(currentSlice, items[i])
             sum == Add(currentSum, items[i].ratio)
             row == [items |-> slice, sumRatio |-> sum]
         IN  IF i = Len(items) THEN Append(rows, row)
             ELSE IF ClosesRow(items, i, K, idealRatioPerRow, rows, sum)
                  THEN PartitionLoop(items, i + 1, K, idealRatioPerRow,
                                     Append(rows, row), <<>>, Zero)
                  ELSE PartitionLoop(items, i + 1, K, idealRatioPerRow,
                                     rows, slice, sum)

\* step 3: the rows for K rows
Partition(items, K) ==
    IF K = 1 THEN <<[items |-> items, sumRatio |-> SumRatio(items)]>>
    ELSE With(Div(SumRatio(items), Num(K)), LAMBDA idealRatioPerRow :
             PartitionLoop(items, 1, K, idealRatioPerRow, <<>>, <<>>, Zero))

\* PlaceItems with currentX advanced by the item's width alone
RECURSIVE PlaceItemsNoGap(_, _, _, _)
PlaceItemsNoGap(rowItems, rowHeight, gap, currentX) ==
    IF rowItems = <<>> THEN <<>>
    ELSE LET item == Head(rowItems)
             itemWidth == Mul(item.ratio, rowHeight)
         IN  <<[index |-> item.index, src |-> item.src, x |-> currentX,
                width |-> itemWidth, height |-> rowHeight]>>
             \o PlaceItemsNoGap(Tail(rowItems), rowHeight, gap,
                                Add(currentX, itemWidth))

\* the items of one row, placed from currentX on
RECURSIVE PlaceItems(_, _, _, _)
PlaceItems(rowItems, rowHeight, gap, currentX) ==
    IF rowItems = <<>> THEN <<>>
    ELSE LET item == Head(rowItems)
             itemWidth == Mul(item.ratio, rowHeight)
         IN  <<[index |-> item.index, src |-> item.src, x |-> currentX,
                width |-> itemWidth, height |-> rowHeight]>>
             \o PlaceItems(Tail(rowItems), rowHeight, gap,
                           Add(Add(currentX, itemWidth), gap))

\* BuildRow with one gap counted per item instead of one per space between items
BuildRowCountsEveryGap(row, containerWidth, gap) ==
    LET availableWidth == Sub(containerWidth, Mul(Num(Len(row.items)), gap))
    IN  With(Div(availableWidth, row.sumRatio), LAMBDA rowHeight :
            [height |-> rowHeight, items |-> PlaceItems(row.items, rowHeight, gap, Zero)])

\* one RowLayout
BuildRow(row, containerWidth, gap) ==
    LET availableWidth == Sub(containerWidth, Mul(Num(Len(row.items) - 1), gap))
    IN  With(Div(availableWidth, row.sumRatio), LAMBDA rowHeight :
            [height |-> rowHeight, items |-> PlaceItems(row.items, rowHeight, gap, Zero)])

\* step 4: rowLayouts, rows without items skipped
RECURSIVE BuildRows(_, _, _)
BuildRows(rows, containerWidth, gap) ==
    IF rows = <<>> THEN <<>>
    ELSE (IF Len(Head(rows).items) = 0 THEN <<>>
          ELSE <<BuildRow(Head(rows), containerWidth, gap)>>)
         \o BuildRows(Tail(rows), containerWidth, gap)

RECURSIVE SumRowHeights(_)
SumRowHeights(rowLayouts) ==
    IF rowLayouts = <<>> THEN Zero
    ELSE Add(SumRowHeights(SubSeq(rowLayouts, 1, Len(rowLayouts) - 1)),
             rowLayouts[Len(rowLayouts)].height)

RowSpacingCount(rowLayouts) ==
    IF Len(rowLayouts) - 1 > 0 THEN Len(rowLayouts) - 1 ELSE 0

\* the vertical fit with totalHeight not recomputed after the gap is enlarged
VerticalFitStaleTotal(rowLayouts, gap, containerHeight) ==
    LET rowSpacingCount == RowSpacingCount(rowLayouts)
    IN  With(Add(SumRowHeights(rowLayouts), Mul(gap, Num(rowSpacingCount))),
             LAMBDA totalHeight :
            IF rowSpacingCount > 0 /\ Lt(totalHeight, containerHeight)
            THEN [verticalGap |-> Add(gap, Div(Sub(containerHeight, totalHeight),
                                               Num(rowSpacingCount))),
                  totalHeight |-> totalHeight]
            ELSE [verticalGap |-> gap, totalHeight |-> totalHeight])

\* verticalGap and totalHeight after the vertical fit
VerticalFit(rowLayouts, gap, containerHeight) ==
    LET rowSpacingCount == RowSpacingCount(rowLayouts)
    IN  With(SumRowHeights(rowLayouts), LAMBDA sumRowHeights :
        With(Add(sumRowHeights, Mul(gap, Num(rowSpacingCount))), LAMBDA totalHeight :
            IF rowSpacingCount > 0 /\ Lt(totalHeight, containerHeight)
            THEN LET extra == Sub(containerHeight, totalHeight)
                 IN  With(Add(gap, Div(extra, Num(rowSpacingCount))), LAMBDA verticalGap :
                         [verticalGap |-> verticalGap,
                          totalHeight |-> Add(sumRowHeights,
                                              Mul(verticalGap, Num(rowSpacingCount)))])
            ELSE [verticalGap |-> gap, totalHeight |-> totalHeight]))

\* layoutItems: every row's items with the row's y
RECURSIVE StackRows(_, _, _)
StackRows(rowLayouts, verticalGap, currentY) ==
    IF rowLayouts = <<>> THEN <<>>
    ELSE LET row == Head(rowLayouts)
         IN  [j \in 1..Len(row.items) |->
                 [index |-> row.items[j].index, src |-> row.items[j].src,
                  x |-> row.items[j].x, y |-> currentY,
                  width |-> row.items[j].width, height |-> row.items[j].height]]
             \o StackRows(Tail(rowLayouts), verticalGap,
                          Add(Add(currentY, row.height), verticalGap))

\* the scale applied whether or not the layout overflows
FitScaleAlways(totalHeight, containerHeight) == Div(containerHeight, totalHeight)

\* step 5: scale
FitScale(totalHeight, containerHeight) ==
    IF Gt(totalHeight, containerHeight) THEN Div(containerHeight, totalHeight) ELSE One

\* the local rowLayouts of an invocation: steps 1 to 4, before the vertical fit
RowLayoutsOf(images, ratios, containerWidth, containerHeight, gap) ==
    IF Len(images) = 0 THEN <<>>
    ELSE With(PrepareItems(images, ratios), LAMBDA items :
         With(RowCount(items, containerWidth, containerHeight), LAMBDA K :
             BuildRows(Partition(items, K), containerWidth, gap)))

EmptyLayout ==
    [items |-> <<>>, totalHeight |-> Zero, scale |-> One,
     topOffset |-> Zero, leftOffset |-> Zero]

computeMosaicLayout(images, ratios, containerWidth, containerHeight, gap) ==
    IF Len(images) = 0 THEN EmptyLayout
    ELSE With(PrepareItems(images, ratios), LAMBDA items :
         With(RowCount(items, containerWidth, containerHeight), LAMBDA K :
         With(Partition(items, K), LAMBDA rows :
         With(BuildRows(rows, containerWidth, gap), LAMBDA rowLayouts :
         With(VerticalFit(rowLayouts, gap, containerHeight), LAMBDA fit :
         With(FitScale(fit.totalHeight, containerHeight), LAMBDA scale :
             LET finalWidth == Mul(containerWidth, scale)
                 finalHeight == Mul(fit.totalHeight, scale)
             IN  [items |-> StackRows(rowLayouts, fit.verticalGap, Zero),
                  totalHeight |-> fit.totalHeight,
                  scale |-> scale,
                  topOffset |-> Div(Sub(containerHeight, finalHeight), Num(2)),
                  leftOffset |-> Div(Sub(containerWidth, finalWidth), Num(2))]))))))

-----------------------------------------------------------------------------
(* Inputs the model draws from.                                            *)

SrcA == <<"a">>

SrcB == <<"b">>

\* a URL the pattern matches, 1 wide and 2 high
SrcU == <<"picsum.photos", "/", "id", "/", "1", "/", "2">>

Sources == {SrcA, SrcB, SrcU}

\* sequences of at most n sources
RECURSIVE SeqsUpTo(_, _)
SeqsUpTo(S, n) ==
    IF n = 0 THEN {<<>>}
    ELSE LET shorter == SeqsUpTo(S, n - 1)
         IN  shorter \cup {Append(l, x) : l \in {m \in shorter : Len(m) = n - 1}, x \in S}

ImageLists == SeqsUpTo(Sources, MaxImages)

\* measured ratios: naturalWidth / naturalHeight of a loaded image
RatioMaps ==
    {<<>>} \cup
    {[s \in {SrcA} |-> r] : r \in {Zero, Q(1, 2), Num(3)}} \cup
    {[s \in {SrcB} |-> r] : r \in {Num(2)}} \cup
    {[s \in {SrcA, SrcB} |-> IF s = SrcA THEN r ELSE Num(2)] : r \in {Zero, Q(1, 2), Num(3)}}

Widths == {Num(300), Num(400)}

Heights == {Num(300), Num(500)}

Gaps == {Zero, Num(2), Num(10), Num(400)}

-----------------------------------------------------------------------------
(* Specification SpecLayout: one invocation of computeMosaicLayout, and of *)
(* its partition step with a chosen row count, on drawn arguments.         *)

NoRet == [called |-> FALSE]

Idle == [op |-> "idle"]

LayoutCalls ==
    {c \in [images : ImageLists, ratios : RatioMaps, containerWidth : Widths,
            containerHeight : Heights, gap : Gaps, k : 1..MaxImages] :
        c.k = 1 \/ c.k <= Len(c.images)}

InitLayout ==
    /\ call \in LayoutCalls
    /\ ret = NoRet
    /\ part = NoRet
    /\ state = Idle
    /\ loadedRatios = <<>>
    /\ pendingLoads = {}
    /\ destroyed = FALSE
    /\ inflight = <<>>
    /\ target = Idle
    /\ last = Idle

CallComputeMosaicLayout ==
    /\ ~ret.called
    /\ ret' = [called |-> TRUE,
               result |-> computeMosaicLayout(call.images, call.ratios,
                              call.containerWidth, call.containerHeight, call.gap),
               rowLayouts |-> RowLayoutsOf(call.images, call.ratios,
                                  call.containerWidth, call.containerHeight, call.gap)]
    /\ UNCHANGED <<call, part>>
    /\ UNCHANGED mountVars

CallPartition ==
    /\ ~part.called
    /\ Len(call.images) > 0
    /\ part' = [called |-> TRUE,
                rows |-> Partition(PrepareItems(call.images, call.ratios), call.k)]
    /\ UNCHANGED <<call, ret>>
    /\ UNCHANGED mountVars

NextLayout == CallComputeMosaicLayout \/ CallPartition

SpecLayout == InitLayout /\ [][NextLayout]_vars

-----------------------------------------------------------------------------
(* Specification SpecRatio: the ratio of one item, and the ratio read from *)
(* its URL, for a source put together from a prefix, two runs between "/"  *)
(* and an ending.                                                          *)

UrlPrefixes ==
    {<<"picsum.photos", "/", "id">>, <<"picsum.photos">>, <<"example.com", "/", "id">>}

UrlRuns == {<<"0">>, <<"2">>, <<"1", "2">>, <<"0", "3">>, <<"x">>, <<>>}

UrlEndings == {<<>>, <<"/">>, <<"/", "/">>}

\* measured ratios of the source: none, 0 (an image 0 wide) or 1/2
MeasuredRatios == {NoRatio, Zero, Q(1, 2)}

UrlOf(c) == c.prefix \o <<"/">> \o c.w \o <<"/">> \o c.h \o c.ending

RatiosOf(c) == IF c.measured = NoRatio THEN <<>> ELSE [s \in {UrlOf(c)} |-> c.measured]

RatioCalls ==
    [prefix : UrlPrefixes, w : UrlRuns, h : UrlRuns, ending : UrlEndings,
     measured : MeasuredRatios]

InitRatio ==
    /\ call \in RatioCalls
    /\ ret = NoRet
    /\ part = NoRet
    /\ state = Idle
    /\ loadedRatios = <<>>
    /\ pendingLoads = {}
    /\ destroyed = FALSE
    /\ inflight = <<>>
    /\ target = Idle
    /\ last = Idle

\* step 1 of computeMosaicLayout on the one source
CallPrepareItems ==
    /\ ~ret.called
    /\ ret' = [called |-> TRUE, items |-> PrepareItems(<<UrlOf(call)>>, RatiosOf(call))]
    /\ UNCHANGED <<call, part>>
    /\ UNCHANGED mountVars

CallGetAspectRatioFromUrl ==
    /\ ~part.called
    /\ part' = [called |-> TRUE, ratio |-> getAspectRatioFromUrl(UrlOf(call))]
    /\ UNCHANGED <<call, ret>>
    /\ UNCHANGED mountVars

NextRatio == CallPrepareItems \/ CallGetAspectRatioFromUrl

SpecRatio == InitRatio /\ [][NextRatio]_vars

-----------------------------------------------------------------------------
(* mountImgCollage.  The options record holds images, width, height, gap,  *)
(* enableDrag, enableResize and minImageSize (className and onImageClick   *)
(* style and dispatch only); a numeric option that was not given is Undef. *)

Undef == <<"undefined">>

\* a destructuring default: value = fallback
OrDefault(value, fallback) == IF value = Undef THEN fallback ELSE value

DefaultWidth == Num(400)

DefaultHeight == Num(500)

DefaultMinImageSize == Num(50)

\* Math.max(10, minImageSize)
NormalizedMinSize(minImageSize) == MathMax(Num(10), minImageSize)

\* clamp(value, min, max) = Math.min(Math.max(value, min), max)
Clamp(value, min, max) == MathMin(MathMax(value, min), max)

\* parseFloat(style) || 0 of a style set to `${value}px`: the number written,
\* 0 when it was NaN
ParseFloatOrZero(value) == IF Truthy(value) THEN value ELSE Zero

\* scaledWidth / scaledHeight || 1
AspectRatioOf(scaledWidth, scaledHeight) ==
    LET q == Div(scaledWidth, scaledHeight)
    IN  IF Truthy(q) THEN q ELSE One

\* the wrapper render creates for one layout item: the constants scaledX,
\* scaledY, scaledWidth and scaledHeight it was placed with, its style (left,
\* top, width, height), and the closure variables of its drag and resize
\* handlers; listeners are the handlers of the wrapper registered on window
\* ("drag", "resize"), in registration order
WrapperUnscaledSize(item, layout, enableDrag, enableResize) ==
    LET scaledWidth == item.width
        scaledHeight == item.height
        scaledX == Add(layout.leftOffset, Mul(item.x, layout.scale))
        scaledY == Add(layout.topOffset, Mul(item.y, layout.scale))
    IN  [index |-> item.index,
         scaledX |-> scaledX, scaledY |-> scaledY,
         scaledWidth |-> scaledWidth, scaledHeight |-> scaledHeight,
         left |-> scaledX, top |-> scaledY,
         width |-> scaledWidth, height |-> scaledHeight,
         hasDrag |-> enableDrag, hasResize |-> enableResize,
         ratio |-> AspectRatioOf(scaledWidth, scaledHeight),
         dragging |-> FALSE, dragStartX |-> Zero, dragStartY |-> Zero,
         initialLeft |-> Zero, initialTop |-> Zero,
         resizing |-> FALSE, resizeStartX |-> Zero, startWidth |-> Zero,
         listeners |-> <<>>]

Wrapper(item, layout, enableDrag, enableResize) ==
    LET scaledWidth == Mul(item.width, layout.scale)
        scaledHeight == Mul(item.height, layout.scale)
        scaledX == Add(layout.leftOffset, Mul(item.x, layout.scale))
        scaledY == Add(layout.topOffset, Mul(item.y, layout.scale))
    IN  [index |-> item.index,
         scaledX |-> scaledX, scaledY |-> scaledY,
         scaledWidth |-> scaledWidth, scaledHeight |-> scaledHeight,
         left |-> scaledX, top |-> scaledY,
         width |-> scaledWidth, height |-> scaledHeight,
         hasDrag |-> enableDrag, hasResize |-> enableResize,
         ratio |-> AspectRatioOf(scaledWidth, scaledHeight),
         dragging |-> FALSE, dragStartX |-> Zero, dragStartY |-> Zero,
         initialLeft |-> Zero, initialTop |-> Zero,
         resizing |-> FALSE, resizeStartX |-> Zero, startWidth |-> Zero,
         listeners |-> <<>>]

EmptyTarget == [text |-> "", wrappers |-> <<>>]

\* what render leaves in the target element
Render(st, ratios) ==
    IF Len(st.images) = 0 THEN [text |-> "No Images", wrappers |-> <<>>]
    ELSE With(computeMosaicLayout(st.images, ratios,
                                  OrDefault(st.width, DefaultWidth),
                                  OrDefault(st.height, DefaultHeight),
                                  OrDefault(st.gap, Num(defaultGap))),
              LAMBDA layout :
                 [text |-> "",
                  wrappers |-> [i \in 1..Len(layout.items) |->
                                   Wrapper(layout.items[i], layout,
                                           st.enableDrag, st.enableResize)]])

\* the computeMosaicLayout calls one render makes
LayoutCallsOfRender(st) == IF Len(st.images) = 0 THEN 0 ELSE 1

\* whether loadMissingRatios starts a probe for src
StartsProbe(src, ratios, pending) ==
    /\ ~(src \in DOMAIN ratios /\ Truthy(ratios[src]))
    /\ LET u == getAspectRatioFromUrl(src) IN ~(u # NoRatio /\ Truthy(u))
    /\ src \notin pending

\* loadMissingRatios over images: the pending set and the probes in flight
RECURSIVE loadMissingRatios(_, _, _, _)
loadMissingRatios(images, ratios, pending, probes) ==
    IF images = <<>> THEN [pending |-> pending, probes |-> probes]
    ELSE LET src == Head(images)
         IN  IF StartsProbe(src, ratios, pending)
             THEN loadMissingRatios(Tail(images), ratios, pending \cup {src},
                                    [probes EXCEPT ![src] = @ + 1])
             ELSE loadMissingRatios(Tail(images), ratios, pending, probes)

\* { ...state, ...next }
Merge(st, next) ==
    [key \in DOMAIN st |-> IF key \in DOMAIN next THEN next[key] ELSE st[key]]

-----------------------------------------------------------------------------
(* Specification Spec: a mounted collage driven by update, destroy and the *)
(* completions of its dimension probes.                                    *)

\* the image lists mount and update are given
MountImageLists ==
    {<<>>, <<SrcA>>, <<SrcB>>, <<SrcA, SrcB>>, <<SrcU, SrcA>>, <<SrcA, SrcA>>}

MountOptions ==
    [images : MountImageLists, width : {Undef}, height : {Undef, Num(300)},
     gap : {Undef}, enableDrag : {FALSE}, enableResize : {FALSE},
     minImageSize : {Undef}]

\* the arguments update is called with
UpdateArgs ==
    {<<>>} \cup {[images |-> l] : l \in MountImageLists} \cup {[gap |-> Num(10)]}

\* naturalWidth and naturalHeight an image reports when it loads
NaturalWidths == {0, 2}

NaturalHeights == {0, 1}

NoProbes == [src \in Sources |-> 0]

\* what a handler leaves in last
Ran(op, src, naturalWidth, naturalHeight, renders, layouts) ==
    [op |-> op, src |-> src, naturalWidth |-> naturalWidth,
     naturalHeight |-> naturalHeight, renders |-> renders, layouts |-> layouts]

\* loadedRatios[src] = ratio
WithRatio(ratios, src, ratio) ==
    [s \in DOMAIN ratios \cup {src} |-> IF s = src THEN ratio ELSE ratios[s]]

\* the state mountImgCollage returns in: render() and loadMissingRatios() done
Init ==
    /\ call = Idle
    /\ ret = NoRet
    /\ part = NoRet
    /\ state \in MountOptions
    /\ loadedRatios = <<>>
    /\ destroyed = FALSE
    /\ target = Render(state, <<>>)
    /\ LET loads == loadMissingRatios(state.images, <<>>, {}, NoProbes)
       IN  /\ pendingLoads = loads.pending
           /\ inflight = loads.probes
    /\ last = Ran("mount", <<>>, 0, 0, 1, LayoutCallsOfRender(state))

update(next) ==
    LET st == Merge(state, next)
        loads == loadMissingRatios(st.images, loadedRatios, pendingLoads, inflight)
    IN  /\ \A src \in Sources : loads.probes[src] <= MaxInFlight
        /\ state' = st
        /\ target' = Render(st, loadedRatios)
        /\ pendingLoads' = loads.pending
        /\ inflight' = loads.probes
        /\ last' = Ran("update", <<>>, 0, 0, 1, LayoutCallsOfRender(st))
        /\ UNCHANGED <<loadedRatios, destroyed>>
        /\ UNCHANGED layoutVars

Update == \E next \in UpdateArgs : update(next)

Destroy ==
    /\ destroyed' = TRUE
    /\ target' = EmptyTarget
    /\ pendingLoads' = {}
    /\ last' = Ran("destroy", <<>>, 0, 0, 0, 0)
    /\ UNCHANGED <<state, loadedRatios, inflight>>
    /\ UNCHANGED layoutVars

\* onload without the destroyed check
onloadIgnoresDestroyed(src, naturalWidth, naturalHeight) ==
    /\ inflight[src] > 0
    /\ inflight' = [inflight EXCEPT ![src] = @ - 1]
    /\ pendingLoads' = pendingLoads \ {src}
    /\ IF naturalHeight = 0
       THEN /\ last' = Ran("onload", src, naturalWidth, naturalHeight, 0, 0)
            /\ UNCHANGED <<loadedRatios, target>>
       ELSE LET ratios == WithRatio(loadedRatios, src, Q(naturalWidth, naturalHeight))
            IN  /\ loadedRatios' = ratios
                /\ target' = Render(state, ratios)
                /\ last' = Ran("onload", src, naturalWidth, naturalHeight,
                               1, LayoutCallsOfRender(state))
    /\ UNCHANGED <<state, destroyed>>
    /\ UNCHANGED layoutVars

\* onload that stores the ratio and does not render
onloadSkipsRender(src, naturalWidth, naturalHeight) ==
    /\ inflight[src] > 0
    /\ inflight' = [inflight EXCEPT ![src] = @ - 1]
    /\ pendingLoads' = pendingLoads \ {src}
    /\ IF destroyed \/ naturalHeight = 0
       THEN /\ last' = Ran("onload", src, naturalWidth, naturalHeight, 0, 0)
            /\ UNCHANGED <<loadedRatios, target>>
       ELSE /\ loadedRatios' = WithRatio(loadedRatios, src, Q(naturalWidth, naturalHeight))
            /\ last' = Ran("onload", src, naturalWidth, naturalHeight, 0, 0)
            /\ UNCHANGED target
    /\ UNCHANGED <<state, destroyed>>
    /\ UNCHANGED layoutVars

\* img.onload of a probe of src, the image naturalWidth x naturalHeight
onload(src, naturalWidth, naturalHeight) ==
    /\ inflight[src] > 0
    /\ inflight' = [inflight EXCEPT ![src] = @ - 1]
    /\ pendingLoads' = pendingLoads \ {src}
    /\ IF destroyed \/ naturalHeight = 0
       THEN /\ last' = Ran("onload", src, naturalWidth, naturalHeight, 0, 0)
            /\ UNCHANGED <<loadedRatios, target>>
       ELSE LET ratios == WithRatio(loadedRatios, src, Q(naturalWidth, naturalHeight))
            IN  /\ loadedRatios' = ratios
                /\ target' = Render(state, ratios)
                /\ last' = Ran("onload", src, naturalWidth, naturalHeight,
                               1, LayoutCallsOfRender(state))
    /\ UNCHANGED <<state, destroyed>>
    /\ UNCHANGED layoutVars

ProbeLoad ==
    \E src \in Sources, w \in NaturalWidths, h \in NaturalHeights : onload(src, w, h)

\* img.onerror of a probe of src
onerror(src) ==
    /\ inflight[src] > 0
    /\ inflight' = [inflight EXCEPT ![src] = @ - 1]
    /\ pendingLoads' = pendingLoads \ {src}
    /\ last' = Ran("onerror", src, 0, 0, 0, 0)
    /\ UNCHANGED <<state, loadedRatios, destroyed, target>>
    /\ UNCHANGED layoutVars

ProbeError == \E src \in Sources : onerror(src)

Next == Update \/ Destroy \/ ProbeLoad \/ ProbeError

Spec == Init /\ [][Next]_vars

-----------------------------------------------------------------------------
(* Specification SpecRender: a collage mounted and updated with gaps that  *)
(* leave a row room for its items and a gap that does not.                 *)

RenderImageLists == {<<SrcA>>, <<SrcU, SrcA>>, <<SrcA, SrcA>>}

RenderOptions ==
    [images : RenderImageLists, width : {Undef}, height : {Undef, Num(300)},
     gap : {Undef, Num(500)}, enableDrag : {FALSE}, enableResize : {FALSE},
     minImageSize : {Undef}]

RenderUpdateArgs ==
    {<<>>, [gap |-> Num(500)], [images |-> <<SrcU, SrcA>>], [images |-> <<>>]}

InitRender ==
    /\ call = Idle
    /\ ret = NoRet
    /\ part = NoRet
    /\ state \in RenderOptions
    /\ loadedRatios = <<>>
    /\ destroyed = FALSE
    /\ target = Render(state, <<>>)
    /\ LET loads == loadMissingRatios(state.images, <<>>, {}, NoProbes)
       IN  /\ pendingLoads = loads.pending
           /\ inflight = loads.probes
    /\ last = Ran("mount", <<>>, 0, 0, 1, LayoutCallsOfRender(state))

UpdateRender == \E next \in RenderUpdateArgs : update(next)

NextRender == UpdateRender \/ Destroy \/ ProbeLoad \/ ProbeError

SpecRender == InitRender /\ [][NextRender]_vars

-----------------------------------------------------------------------------
(* Specification SpecInteract: pointer events on the wrappers of a mounted *)
(* collage.  Every pointerdown registers its handlers on window, so a      *)
(* pointermove or pointerup reaches every wrapper being dragged or resized.*)

\* the options the collage is mounted with: a 1:2 image that is scaled down
\* to fit, a 3:2 image that fills the width, with the default and a smaller
\* height, the default and a larger minimum size
InteractOptions ==
    {[images |-> <<SrcU>>, width |-> Undef, height |-> Num(300), gap |-> Undef,
      enableDrag |-> TRUE, enableResize |-> TRUE, minImageSize |-> Num(200)],
     [images |-> <<SrcU>>, width |-> Undef, height |-> Undef, gap |-> Undef,
      enableDrag |-> TRUE, enableResize |-> TRUE, minImageSize |-> Undef],
     [images |-> <<SrcA>>, width |-> Undef, height |-> Undef, gap |-> Undef,
      enableDrag |-> TRUE, enableResize |-> FALSE, minImageSize |-> Undef],
     [images |-> <<SrcA, SrcU>>, width |-> Undef, height |-> Num(300), gap |-> Undef,
      enableDrag |-> FALSE, enableResize |-> TRUE, minImageSize |-> Undef]}

PointerXs == {Num(0), Num(300)}

PointerYs == {Num(0), Num(250)}

Buttons == {0, 2}

\* the container size and minimum size the handlers of the last render closed over
ContainerWidth == OrDefault(state.width, DefaultWidth)

ContainerHeight == OrDefault(state.height, DefaultHeight)

MinSize == NormalizedMinSize(OrDefault(state.minImageSize, DefaultMinImageSize))

InitInteract ==
    /\ call = Idle
    /\ ret = NoRet
    /\ part = NoRet
    /\ state \in InteractOptions
    /\ loadedRatios = <<>>
    /\ destroyed = FALSE
    /\ target = Render(state, <<>>)
    /\ LET loads == loadMissingRatios(state.images, <<>>, {}, NoProbes)
       IN  /\ pendingLoads = loads.pending
           /\ inflight = loads.probes
    /\ last = Ran("mount", <<>>, 0, 0, 1, LayoutCallsOfRender(state))

\* window.addEventListener: a handler already registered is not added again
Registered(listeners, handler) ==
    IF \E k \in 1..Len(listeners) : listeners[k] = handler THEN listeners
    ELSE Append(listeners, handler)

\* the drag move with the position left unclamped above
DragMovedUnbounded(w, clientX, clientY) ==
    IF ~w.dragging THEN w
    ELSE LET dx == Sub(clientX, w.dragStartX)
             dy == Sub(clientY, w.dragStartY)
         IN  [w EXCEPT !.left = MathMax(Add(w.initialLeft, dx), Zero),
                       !.top = MathMax(Add(w.initialTop, dy), Zero)]

\* attachDragHandlers.handlePointerMove on wrapper w
DragMoved(w, clientX, clientY) ==
    IF ~w.dragging THEN w
    ELSE LET dx == Sub(clientX, w.dragStartX)
             dy == Sub(clientY, w.dragStartY)
             wrapperWidth == ParseFloatOrZero(w.width)
             wrapperHeight == ParseFloatOrZero(w.height)
             maxLeft == MathMax(Zero, Sub(ContainerWidth, wrapperWidth))
             maxTop == MathMax(Zero, Sub(ContainerHeight, wrapperHeight))
         IN  [w EXCEPT !.left = Clamp(Add(w.initialLeft, dx), Zero, maxLeft),
                       !.top = Clamp(Add(w.initialTop, dy), Zero, maxTop)]

\* the resize move with the height taken as width times ratio
ResizeMovedInverted(w, clientX) ==
    IF ~w.resizing THEN w
    ELSE LET dx == Sub(clientX, w.resizeStartX)
             currentLeft == ParseFloatOrZero(w.left)
             currentTop == ParseFloatOrZero(w.top)
             maxWidthByBounds ==
                 MathMin(MathMax(MinSize, Sub(ContainerWidth, currentLeft)),
                         MathMax(MinSize, Mul(Sub(ContainerHeight, currentTop), w.ratio)))
             nextWidth == Clamp(Add(w.startWidth, dx), MinSize, maxWidthByBounds)
         IN  [w EXCEPT !.width = nextWidth, !.height = Mul(nextWidth, w.ratio)]

\* attachResizeHandle.handlePointerMove on wrapper w
ResizeMoved(w, clientX) ==
    IF ~w.resizing THEN w
    ELSE LET dx == Sub(clientX, w.resizeStartX)
             currentLeft == ParseFloatOrZero(w.left)
             currentTop == ParseFloatOrZero(w.top)
             maxWidthByBounds ==
                 MathMin(MathMax(MinSize, Sub(ContainerWidth, currentLeft)),
                         MathMax(MinSize, Mul(Sub(ContainerHeight, currentTop), w.ratio)))
             rawWidth == Add(w.startWidth, dx)
             nextWidth == Clamp(rawWidth, MinSize, maxWidthByBounds)
             nextHeight == Div(nextWidth, w.ratio)
         IN  [w EXCEPT !.width = nextWidth, !.height = nextHeight]

\* a pointermove dispatched to the wrapper's handlers in registration order
RECURSIVE Dispatched(_, _, _, _)
Dispatched(w, listeners, clientX, clientY) ==
    IF listeners = <<>> THEN w
    ELSE Dispatched(IF Head(listeners) = "drag" THEN DragMoved(w, clientX, clientY)
                    ELSE ResizeMoved(w, clientX),
                    Tail(listeners), clientX, clientY)

\* attachDragHandlers.handlePointerDown on wrapper i
PointerDownWrapper ==
    \E i \in 1..Len(target.wrappers), button \in Buttons,
       clientX \in PointerXs, clientY \in PointerYs :
        LET w == target.wrappers[i]
        IN  /\ w.hasDrag
            /\ target' =
                 IF button # 0 THEN target
                 ELSE [target EXCEPT !.wrappers[i] =
                          [w EXCEPT !.dragging = TRUE,
                                    !.dragStartX = clientX,
                                    !.dragStartY = clientY,
                                    !.initialLeft = ParseFloatOrZero(w.left),
                                    !.initialTop = ParseFloatOrZero(w.top),
                                    !.listeners = Registered(w.listeners, "drag")]]
            /\ last' = Ran("pointerdown", <<>>, 0, 0, 0, 0)
            /\ UNCHANGED <<state, loadedRatios, pendingLoads, destroyed, inflight>>
            /\ UNCHANGED layoutVars

\* the pointerdown listener of the resize handle of wrapper i
PointerDownHandle ==
    \E i \in 1..Len(target.wrappers), button \in Buttons, clientX \in PointerXs :
        LET w == target.wrappers[i]
        IN  /\ w.hasResize
            /\ target' =
                 IF button # 0 THEN target
                 ELSE [target EXCEPT !.wrappers[i] =
                          [w EXCEPT !.resizing = TRUE,
                                    !.resizeStartX = clientX,
                                    !.startWidth = ParseFloatOrZero(w.width),
                                    !.listeners = Registered(w.listeners, "resize")]]
            /\ last' = Ran("pointerdown", <<>>, 0, 0, 0, 0)
            /\ UNCHANGED <<state, loadedRatios, pendingLoads, destroyed, inflight>>
            /\ UNCHANGED layoutVars

\* a pointermove on window
PointerMove ==
    \E clientX \in PointerXs, clientY \in PointerYs :
        /\ target' = [target EXCEPT !.wrappers =
                         [i \in 1..Len(target.wrappers) |->
                             Dispatched(target.wrappers[i], target.wrappers[i].listeners,
                                        clientX, clientY)]]
        /\ last' = Ran("pointermove", <<>>, 0, 0, 0, 0)
        /\ UNCHANGED <<state, loadedRatios, pendingLoads, destroyed, inflight>>
        /\ UNCHANGED layoutVars

\* a pointerup on window: both handlePointerUp of every wrapper
PointerUp ==
    /\ target' = [target EXCEPT !.wrappers =
                     [i \in 1..Len(target.wrappers) |->
                         [target.wrappers[i] EXCEPT !.dragging = FALSE,
                                                    !.resizing = FALSE,
                                                    !.listeners = <<>>]]]
    /\ last' = Ran("pointerup", <<>>, 0, 0, 0, 0)
    /\ UNCHANGED <<state, loadedRatios, pendingLoads, destroyed, inflight>>
    /\ UNCHANGED layoutVars

NextInteract == PointerDownWrapper \/ PointerDownHandle \/ PointerMove \/ PointerUp

SpecInteract == InitInteract /\ [][NextInteract]_vars

-----------------------------------------------------------------------------
(* Properties of computeMosaicLayout, checked under SpecLayout.            *)

CallItems == PrepareItems(call.images, call.ratios)

\* the row layouts of the invocation before the vertical fit, once it has
\* returned
CallRowLayouts == ret.rowLayouts

\* C1: for a non-empty image list the returned items carry each index of
\* 0..n-1 exactly once, in ascending order, each with the source at that
\* input position.
C1_EveryIndexOnce ==
    (ret.called /\ Len(call.images) > 0) =>
        /\ Len(ret.result.items) = Len(call.images)
        /\ \A i \in 1..Len(ret.result.items) :
              /\ ret.result.items[i].index = i - 1
              /\ ret.result.items[i].src = call.images[i]

\* a three-image layout of more than one row has been returned
C1_Witness ==
    /\ ret.called
    /\ Len(call.images) = 3
    /\ Len(CallRowLayouts) > 1

\* C5: the returned scale lies in (0, 1], is 1 exactly when the pre-scale
\* totalHeight is at most containerHeight, and is containerHeight /
\* totalHeight otherwise.
C5_ScaleRange ==
    (ret.called /\ Len(call.images) > 0) =>
        LET r == ret.result
        IN  /\ Gt(r.scale, Zero)
            /\ Le(r.scale, One)
            /\ (r.scale = One) <=> Le(r.totalHeight, call.containerHeight)
            /\ Gt(r.totalHeight, call.containerHeight) =>
                  r.scale = Div(call.containerHeight, r.totalHeight)

\* an overflowing layout has been returned, scaled down
C5_Witness ==
    /\ ret.called
    /\ Len(call.images) > 0
    /\ Gt(ret.result.totalHeight, call.containerHeight)
    /\ Lt(ret.result.scale, One)

\* number of items in the rows before row r
RECURSIVE ItemsBefore(_, _)
ItemsBefore(rowLayouts, r) ==
    IF r <= 1 THEN 0
    ELSE ItemsBefore(rowLayouts, r - 1) + Len(rowLayouts[r - 1].items)

\* the vertical fit has room to stretch: several rows that under-fill the height
C6_AppliesTo(rows) ==
    /\ ret.called
    /\ Len(rows) > 1
    /\ Lt(Add(SumRowHeights(rows), Mul(call.gap, Num(Len(rows) - 1))),
          call.containerHeight)

C6_Applies == ret.called /\ C6_AppliesTo(CallRowLayouts)

\* the gap the claim expects between rows: gap plus the missing height shared
\* among the spaces between rows
C6_EnlargedGap(rows) ==
    LET n == Len(rows) - 1
        before == Add(SumRowHeights(rows), Mul(call.gap, Num(n)))
    IN  Add(call.gap, Div(Sub(call.containerHeight, before), Num(n)))

\* C6: with more than one row and row heights plus gaps below
\* containerHeight, totalHeight is containerHeight exactly, every item keeps
\* its row's height from before the fit, the first row has y = 0, each next
\* row's y is the previous y plus that row's height plus the enlarged gap, and
\* the last row ends at containerHeight.  (Exact arithmetic.)
C6_StretchFillsHeight ==
    ret.called =>
        \A rows \in {CallRowLayouts} :
            C6_AppliesTo(rows) =>
                \A enlarged \in {C6_EnlargedGap(rows)} :
                    LET its == ret.result.items
                        yOf(r) == its[ItemsBefore(rows, r) + 1].y
                    IN  /\ ret.result.totalHeight = call.containerHeight
                        /\ Gt(enlarged, call.gap)
                        /\ \A r \in 1..Len(rows) : \A j \in 1..Len(rows[r].items) :
                              /\ its[ItemsBefore(rows, r) + j].height = rows[r].height
                              /\ its[ItemsBefore(rows, r) + j].y = yOf(r)
                        /\ yOf(1) = Zero
                        /\ \A r \in 1..(Len(rows) - 1) :
                              yOf(r + 1) = Add(Add(yOf(r), rows[r].height), enlarged)
                        /\ Add(yOf(Len(rows)), rows[Len(rows)].height)
                              = call.containerHeight

\* a stretched layout with a non-zero configured gap
C6_Witness ==
    /\ C6_Applies
    /\ call.gap = Num(10)
    /\ Len(CallRowLayouts) = 2

RECURSIVE ConcatRows(_)
ConcatRows(rows) ==
    IF rows = <<>> THEN <<>> ELSE Head(rows).items \o ConcatRows(Tail(rows))

\* C7: for every row count K in 1..n the partition yields between 1 and K
\* rows, each a non-empty run of the input, and the rows concatenated in row
\* order are the input sequence (so they are contiguous, do not overlap and
\* omit nothing).  Rows = closed rows + 1, so fewer than K rows means fewer
\* than K-1 rows were closed when the last item was reached.
C7_RowsPartitionInput ==
    part.called =>
        /\ Len(part.rows) >= 1
        /\ Len(part.rows) <= call.k
        /\ \A r \in 1..Len(part.rows) : Len(part.rows[r].items) > 0
        /\ ConcatRows(part.rows) = CallItems

\* a partition into fewer rows than asked for, with a row of several items
C7_Witness ==
    /\ part.called
    /\ call.k = 3
    /\ Len(part.rows) = 2
    /\ \E r \in 1..Len(part.rows) : Len(part.rows[r].items) = 2

\* every row of the invocation leaves room for its items:
\* containerWidth > (rowItemCount - 1) * gap
C11_RoomIn(rows) ==
    \A r \in 1..Len(rows) :
        Gt(call.containerWidth, Mul(Num(Len(rows[r].items) - 1), call.gap))

\* C11 as stated: for a non-empty image list with containerWidth > 0,
\* containerHeight > 0 and gap >= 0, every row's height, hence every item's
\* width and height, is strictly positive.
C11_PositiveSizes ==
    (/\ ret.called
     /\ Len(call.images) > 0
     /\ Gt(call.containerWidth, Zero)
     /\ Gt(call.containerHeight, Zero)
     /\ Le(Zero, call.gap)) =>
        \A i \in 1..Len(ret.result.items) :
            /\ Gt(ret.result.items[i].height, Zero)
            /\ Gt(ret.result.items[i].width, Zero)

\* C11 amended: for a non-empty image list with containerWidth > 0,
\* containerHeight > 0, gap >= 0 and containerWidth > (rowItemCount - 1) * gap
\* in every row, every row's height, hence every item's width and height, is
\* strictly positive.
C11_PositiveSizesAmended ==
    (/\ ret.called
     /\ Len(call.images) > 0
     /\ Gt(call.containerWidth, Zero)
     /\ Gt(call.containerHeight, Zero)
     /\ Le(Zero, call.gap)) =>
        \A rows \in {CallRowLayouts} :
            C11_RoomIn(rows) =>
                /\ \A r \in 1..Len(rows) : Gt(rows[r].height, Zero)
                /\ \A i \in 1..Len(ret.result.items) :
                      /\ Gt(ret.result.items[i].height, Zero)
                      /\ Gt(ret.result.items[i].width, Zero)

\* a layout with a row of several items and a non-zero gap that leaves room
\* has been returned
C11_Witness ==
    /\ ret.called
    /\ Gt(call.gap, Zero)
    /\ \E rows \in {CallRowLayouts} :
          /\ C11_RoomIn(rows)
          /\ \E r \in 1..Len(rows) : Len(rows[r].items) > 1

\* the ratios of the items of a row, added up
RECURSIVE C12_SumRatio(_, _, _)
C12_SumRatio(items, from, to) ==
    IF to < from THEN Zero
    ELSE Add(C12_SumRatio(items, from, to - 1), items[to].ratio)

\* the widths of the returned items from..to, added up
RECURSIVE C12_SumWidth(_, _, _)
C12_SumWidth(its, from, to) ==
    IF to < from THEN Zero
    ELSE Add(C12_SumWidth(its, from, to - 1), its[to].width)

\* C12: in every row all items have the height availableWidth / sumRatio, the
\* first item has x = 0, each next item's x is the previous x plus the
\* previous width plus gap, and the widths plus (rowItemCount - 1) * gap add
\* up to containerWidth.  (Exact arithmetic.)
C12_RowSpansWidth ==
    (ret.called /\ Len(call.images) > 0) =>
        \A rows \in {CallRowLayouts}, items \in {CallItems}, its \in {ret.result.items} :
            \A r \in 1..Len(rows) :
                LET first == ItemsBefore(rows, r) + 1
                    n == Len(rows[r].items)
                    lastOf == first + n - 1
                    spaces == Mul(Num(n - 1), call.gap)
                    availableWidth == Sub(call.containerWidth, spaces)
                    height == Div(availableWidth, C12_SumRatio(items, first, lastOf))
                IN  /\ \A j \in first..lastOf : its[j].height = height
                    /\ its[first].x = Zero
                    /\ \A j \in first..(lastOf - 1) :
                          its[j + 1].x = Add(Add(its[j].x, its[j].width), call.gap)
                    /\ Add(C12_SumWidth(its, first, lastOf), spaces) = call.containerWidth

\* a layout stretched by the vertical fit, with a row of several items and a
\* non-zero gap, has been returned
C12_Witness ==
    /\ C6_Applies
    /\ Gt(call.gap, Zero)
    /\ Gt(ret.result.totalHeight, Add(SumRowHeights(CallRowLayouts),
                                       Mul(call.gap, Num(Len(CallRowLayouts) - 1))))
    /\ \E r \in 1..Len(CallRowLayouts) : Len(CallRowLayouts[r].items) > 1

\* the row of the partition that holds the item at position j
C14_RowOf(j) ==
    CHOOSE r \in 1..Len(part.rows) :
        ItemsBefore(part.rows, r) < j /\ j <= ItemsBefore(part.rows, r) + Len(part.rows[r].items)

\* the item at position j is the last of row r
C14_ClosedAfter(j, r) == j = ItemsBefore(part.rows, r) + Len(part.rows[r].items)

\* currentSum after the item at position j has been admitted to row r
C14_CurrentSum(items, j, r) == C12_SumRatio(items, ItemsBefore(part.rows, r) + 1, j)

C14_Ideal(items) == Div(SumRatio(items), Num(call.k))

C14_CurrentDiff(currentSum, ideal) == Abs(Sub(currentSum, ideal))

C14_NextDiff(currentSum, nextRatio, ideal) == Abs(Sub(Add(currentSum, nextRatio), ideal))

\* C14: for K >= 2 and every item but the last, the row is closed after the
\* item exactly when fewer than K-1 rows were closed before and
\* |currentSum + ratio(next) - ideal| > |currentSum - ideal|, with ideal =
\* totalRatio / K; on equality, and once K-1 rows are closed, the row keeps
\* accumulating.
C14_GreedyRule ==
    (part.called /\ call.k >= 2) =>
        \A items \in {CallItems} : \A ideal \in {C14_Ideal(items)} :
            \A j \in 1..(Len(items) - 1) : \A r \in {C14_RowOf(j)} :
                \A currentSum \in {C14_CurrentSum(items, j, r)} :
                    C14_ClosedAfter(j, r) <=>
                        /\ r - 1 < call.k - 1
                        /\ Gt(C14_NextDiff(currentSum, items[j + 1].ratio, ideal),
                              C14_CurrentDiff(currentSum, ideal))

\* a partition in which a row went on accumulating on equal distances
C14_Witness ==
    /\ part.called
    /\ call.k >= 2
    /\ \E items \in {CallItems} : \E ideal \in {C14_Ideal(items)} :
          \E j \in 1..(Len(items) - 1) : \E r \in {C14_RowOf(j)} :
              \E currentSum \in {C14_CurrentSum(items, j, r)} :
                  /\ r - 1 < call.k - 1
                  /\ C14_NextDiff(currentSum, items[j + 1].ratio, ideal)
                        = C14_CurrentDiff(currentSum, ideal)
                  /\ ~C14_ClosedAfter(j, r)

\* after K-1 rows were closed an item that the distances would have closed
\* the row after has been admitted to the last row
C14_WitnessRowsUsedUp ==
    /\ part.called
    /\ call.k >= 2
    /\ \E items \in {CallItems} : \E ideal \in {C14_Ideal(items)} :
          \E j \in 1..(Len(items) - 1) : \E r \in {C14_RowOf(j)} :
              \E currentSum \in {C14_CurrentSum(items, j, r)} :
                  /\ r - 1 = call.k - 1
                  /\ Gt(C14_NextDiff(currentSum, items[j + 1].ratio, ideal),
                        C14_CurrentDiff(currentSum, ideal))
                  /\ ~C14_ClosedAfter(j, r)

-----------------------------------------------------------------------------
(* Properties of the ratio of an item, checked under SpecRatio.            *)

\* a run of decimal digits, and its value
C13_IsNumber(run) == run \in {<<"0">>, <<"2">>, <<"1", "2">>, <<"0", "3">>}

C13_Value(run) ==
    CASE run = <<"0">> -> 0 [] run = <<"2">> -> 2
      [] run = <<"1", "2">> -> 12 [] run = <<"0", "3">> -> 3

\* the source is a picsum.photos URL with a path that ends in /<w>/<h> or
\* /<w>/<h>/
C13_Structured ==
    /\ call.prefix = <<"picsum.photos", "/", "id">>
    /\ C13_IsNumber(call.w)
    /\ C13_IsNumber(call.h)
    /\ call.ending \in {<<>>, <<"/">>}

C13_Measured == call.measured # NoRatio /\ call.measured # Zero

\* C13 as stated: the ratio of the item is the measured ratio when present
\* and truthy, otherwise w/h of a structured URL with h # 0, otherwise 1.5;
\* it is strictly positive.
C13_RatioPriority ==
    ret.called =>
        LET ratio == ret.items[1].ratio
        IN  /\ ratio = (IF C13_Measured THEN call.measured
                        ELSE IF C13_Structured /\ C13_Value(call.h) # 0
                             THEN Q(C13_Value(call.w), C13_Value(call.h))
                             ELSE Q(3, 2))
            /\ Gt(ratio, Zero)

\* C13 amended: the ratio of the item is the measured ratio when present and
\* truthy, otherwise w/h of a structured URL with h # 0 and w # 0, otherwise
\* 1.5; it is strictly positive.
C13_RatioPriorityAmended ==
    ret.called =>
        LET ratio == ret.items[1].ratio
        IN  /\ ratio = (IF C13_Measured THEN call.measured
                        ELSE IF /\ C13_Structured
                                /\ C13_Value(call.h) # 0
                                /\ C13_Value(call.w) # 0
                             THEN Q(C13_Value(call.w), C13_Value(call.h))
                             ELSE Q(3, 2))
            /\ Gt(ratio, Zero)

\* the ratio of a structured URL has been used for a source whose measured
\* ratio is 0
C13_Witness ==
    /\ ret.called
    /\ call.measured = Zero
    /\ C13_Structured
    /\ ret.items[1].ratio = Q(12, 2)

-----------------------------------------------------------------------------
(* Properties of the mounted collage, checked under Spec.                  *)

\* the step is the completion of a probe through handler op
CompletionStep(op) ==
    /\ last'.op = op
    /\ inflight'[last'.src] = inflight[last'.src] - 1

\* C2: there are never two dimension probes outstanding for the same source.
C2_OneProbePerSource == \A src \in Sources : inflight[src] <= 1

\* C3: once destroy() has been called, a probe completion (onload or onerror,
\* of any source) leaves the measured ratios and the target's content as they
\* were and calls neither render nor computeMosaicLayout.
C3_NoEffectAfterDestroy ==
    [][(destroyed /\ (CompletionStep("onload") \/ CompletionStep("onerror"))) =>
          /\ loadedRatios' = loadedRatios
          /\ target' = target
          /\ last'.renders = 0
          /\ last'.layouts = 0]_vars

\* after destroy() a probe has completed with a loaded image of non-zero height
C3_Witness ==
    /\ destroyed
    /\ last.op = "onload"
    /\ last.naturalHeight # 0
    /\ last.naturalWidth # 0

\* C4 as stated: before teardown every onload stores the ratio of its source
\* and makes one render with one computeMosaicLayout call; every onerror
\* changes no ratio and renders nothing.
C4_LoadRendersOnce ==
    [][~destroyed =>
          /\ CompletionStep("onload") =>
                /\ last'.src \in DOMAIN loadedRatios'
                /\ loadedRatios'[last'.src] = Q(last'.naturalWidth, last'.naturalHeight)
                /\ last'.renders = 1
                /\ last'.layouts = 1
          /\ CompletionStep("onerror") =>
                /\ loadedRatios' = loadedRatios
                /\ last'.renders = 0]_vars

\* C4 amended: before teardown an onload reporting a non-zero naturalHeight
\* stores naturalWidth / naturalHeight for its source, leaves every other
\* entry alone and calls render once, which calls computeMosaicLayout once
\* when the image list is non-empty and not at all when it is empty; an onload
\* reporting naturalHeight 0 and an onerror change no ratio, render nothing
\* and leave the target as it was.
C4_LoadRendersOnceAmended ==
    [][~destroyed =>
          /\ (CompletionStep("onload") /\ last'.naturalHeight # 0) =>
                /\ loadedRatios' = WithRatio(loadedRatios, last'.src,
                                       Q(last'.naturalWidth, last'.naturalHeight))
                /\ last'.renders = 1
                /\ last'.layouts = (IF Len(state.images) = 0 THEN 0 ELSE 1)
                /\ target' = Render(state, loadedRatios')
          /\ (CompletionStep("onload") /\ last'.naturalHeight = 0) =>
                /\ loadedRatios' = loadedRatios
                /\ target' = target
                /\ last'.renders = 0
                /\ last'.layouts = 0
          /\ CompletionStep("onerror") =>
                /\ loadedRatios' = loadedRatios
                /\ target' = target
                /\ last'.renders = 0
                /\ last'.layouts = 0]_vars

\* before teardown a probe has loaded and re-rendered the layout while the
\* probe of another source is still outstanding
C4_Witness ==
    /\ ~destroyed
    /\ last.op = "onload"
    /\ last.renders = 1
    /\ last.layouts = 1
    /\ \E src \in Sources : src # last.src /\ inflight[src] > 0

\* C10: a source that has an entry in loadedRatios keeps it, with its value.
C10_RatiosOnlyGrow ==
    [][\A src \in DOMAIN loadedRatios :
          /\ src \in DOMAIN loadedRatios'
          /\ loadedRatios'[src] = loadedRatios[src]]_vars

-----------------------------------------------------------------------------
(* Properties of the rendered items, checked under SpecRender.             *)

\* the layout of the last render: the target holds wrappers only between a
\* render and destroy, and no step in between changes state or loadedRatios
\* without rendering
C15_Layout ==
    computeMosaicLayout(state.images, loadedRatios, ContainerWidth, ContainerHeight,
                        OrDefault(state.gap, Num(defaultGap)))

\* the rows of that layout
C15_Rows ==
    LET items == PrepareItems(state.images, loadedRatios)
    IN  Partition(items, RowCount(items, ContainerWidth, ContainerHeight))

\* every row has positive available width
C15_RoomInEveryRow ==
    \A r \in 1..Len(C15_Rows) :
        Gt(ContainerWidth,
           Mul(Num(Len(C15_Rows[r].items) - 1), OrDefault(state.gap, Num(defaultGap))))

\* C15: after every render every item's displayed rectangle, left =
\* leftOffset + x*scale, top = topOffset + y*scale, width*scale by
\* height*scale, lies inside [0, width] x [0, height], and leftOffset and
\* topOffset are at least 0, provided every row has positive available width.
C15_RenderedInside ==
    (Len(target.wrappers) > 0 /\ C15_RoomInEveryRow) =>
        \A layout \in {C15_Layout} :
            /\ Le(Zero, layout.leftOffset)
            /\ Le(Zero, layout.topOffset)
            /\ Len(target.wrappers) = Len(layout.items)
            /\ \A i \in 1..Len(target.wrappers) :
                  LET w == target.wrappers[i]
                      item == layout.items[i]
                  IN  /\ w.left = Add(layout.leftOffset, Mul(item.x, layout.scale))
                      /\ w.top = Add(layout.topOffset, Mul(item.y, layout.scale))
                      /\ w.width = Mul(item.width, layout.scale)
                      /\ w.height = Mul(item.height, layout.scale)
                      /\ Gt(w.width, Zero)
                      /\ Gt(w.height, Zero)
                      /\ Le(Zero, w.left)
                      /\ Le(Zero, w.top)
                      /\ Le(Add(w.left, w.width), ContainerWidth)
                      /\ Le(Add(w.top, w.height), ContainerHeight)

\* a probe completion has re-rendered a layout of two rows that was scaled
\* down to fit the height
C15_Witness ==
    /\ last.op = "onload"
    /\ last.renders = 1
    /\ Len(target.wrappers) = 2
    /\ C15_RoomInEveryRow
    /\ Lt(C15_Layout.scale, One)
    /\ Gt(target.wrappers[2].top, target.wrappers[1].top)

-----------------------------------------------------------------------------
(* Properties of drag and resize, checked under SpecInteract.              *)

\* the step is a pointermove on window
MoveStep == last'.op = "pointermove"

\* handler first runs before handler second when a pointermove is dispatched
RunsBefore(listeners, first, second) ==
    \E j, k \in 1..Len(listeners) :
        j < k /\ listeners[j] = first /\ listeners[k] = second

\* the position the resize handler of wrapper i reads in this step, and the
\* size its drag handler reads
LeftRead(i) ==
    IF RunsBefore(target.wrappers[i].listeners, "drag", "resize")
    THEN target'.wrappers[i].left ELSE target.wrappers[i].left

TopRead(i) ==
    IF RunsBefore(target.wrappers[i].listeners, "drag", "resize")
    THEN target'.wrappers[i].top ELSE target.wrappers[i].top

WidthRead(i) ==
    IF RunsBefore(target.wrappers[i].listeners, "resize", "drag")
    THEN target'.wrappers[i].width ELSE target.wrappers[i].width

HeightRead(i) ==
    IF RunsBefore(target.wrappers[i].listeners, "resize", "drag")
    THEN target'.wrappers[i].height ELSE target.wrappers[i].height

\* max(10, minImageSize), minImageSize 50 when not given
C8_MinimumSize ==
    LET m == IF state.minImageSize = Undef THEN Num(50) ELSE state.minImageSize
    IN  IF Lt(m, Num(10)) THEN Num(10) ELSE m

\* the room the container leaves for the width of wrapper i at its position:
\* up to the right edge, and up to the bottom edge at the rendered aspect ratio
C8_Room(i) ==
    LET roomX == Sub(ContainerWidth, LeftRead(i))
        roomY == Sub(ContainerHeight, TopRead(i))
        rendered == Div(target.wrappers[i].scaledWidth, target.wrappers[i].scaledHeight)
        byHeight == Mul(roomY, rendered)
    IN  IF Lt(byHeight, roomX) THEN byHeight ELSE roomX

\* C8 as stated: after a resize pointer move the item has the aspect ratio it
\* was rendered with, is at least the minimum size wide, and lies inside the
\* container: left + width <= containerWidth, top + height <= containerHeight.
C8_ResizeStaysInside ==
    [][MoveStep =>
          \A i \in 1..Len(target.wrappers) :
              target.wrappers[i].resizing =>
                  LET w == target'.wrappers[i]
                      quotient == Div(w.width, w.height)
                      rendered == Div(w.scaledWidth, w.scaledHeight)
                      right == Add(LeftRead(i), w.width)
                      bottom == Add(TopRead(i), w.height)
                  IN  /\ quotient = rendered
                      /\ Le(C8_MinimumSize, w.width)
                      /\ Le(right, ContainerWidth)
                      /\ Le(bottom, ContainerHeight)]_vars

\* C8 amended: after a resize pointer move the item has the aspect ratio it
\* was rendered with, its width is at least the minimum size and at most the
\* larger of the minimum size and the room the container leaves at the item's
\* position; it lies inside the container whenever that room is at least the
\* minimum size (the minimum size wins over the container bounds).
C8_ResizeStaysInsideAmended ==
    [][MoveStep =>
          \A i \in 1..Len(target.wrappers) :
              target.wrappers[i].resizing =>
                  LET w == target'.wrappers[i]
                      quotient == Div(w.width, w.height)
                      rendered == Div(w.scaledWidth, w.scaledHeight)
                      right == Add(LeftRead(i), w.width)
                      bottom == Add(TopRead(i), w.height)
                      room == C8_Room(i)
                      minimum == C8_MinimumSize
                  IN  /\ quotient = rendered
                      /\ Le(minimum, w.width)
                      /\ Le(w.width, IF Lt(room, minimum) THEN minimum ELSE room)
                      /\ Le(minimum, room) =>
                            /\ Le(right, ContainerWidth)
                            /\ Le(bottom, ContainerHeight)]_vars

\* a resize pointer move has changed the size of an item
C8_Witness ==
    /\ last.op = "pointermove"
    /\ \E i \in 1..Len(target.wrappers) :
          /\ target.wrappers[i].resizing
          /\ target.wrappers[i].width # target.wrappers[i].scaledWidth
          /\ Gt(target.wrappers[i].width, C8_MinimumSize)

\* C9 as stated: after a drag pointer move the item's left is within
\* [0, containerWidth - itemWidth] and its top within
\* [0, containerHeight - itemHeight]; a pointer move while the item is not
\* dragged leaves its position alone.
C9_DragStaysInside ==
    [][MoveStep =>
          \A i \in 1..Len(target.wrappers) :
              LET w == target'.wrappers[i]
              IN  IF target.wrappers[i].dragging
                  THEN /\ Le(Zero, w.left)
                       /\ Le(w.left, Sub(ContainerWidth, WidthRead(i)))
                       /\ Le(Zero, w.top)
                       /\ Le(w.top, Sub(ContainerHeight, HeightRead(i)))
                  ELSE w.left = target.wrappers[i].left /\ w.top = target.wrappers[i].top]_vars

\* C9 amended: after a drag pointer move the item's left is within
\* [0, max(0, containerWidth - itemWidth)] and its top within
\* [0, max(0, containerHeight - itemHeight)], so an item larger than the
\* container is held at 0; a pointer move while the item is not dragged
\* leaves its position alone.
C9_DragStaysInsideAmended ==
    [][MoveStep =>
          \A i \in 1..Len(target.wrappers) :
              LET w == target'.wrappers[i]
                  roomX == Sub(ContainerWidth, WidthRead(i))
                  roomY == Sub(ContainerHeight, HeightRead(i))
              IN  IF target.wrappers[i].dragging
                  THEN /\ Le(Zero, w.left)
                       /\ Le(w.left, IF Lt(roomX, Zero) THEN Zero ELSE roomX)
                       /\ Le(Zero, w.top)
                       /\ Le(w.top, IF Lt(roomY, Zero) THEN Zero ELSE roomY)
                  ELSE w.left = target.wrappers[i].left /\ w.top = target.wrappers[i].top]_vars

\* a drag pointer move has moved an item, which was pushed against the far
\* edge of the container
C9_Witness ==
    /\ last.op = "pointermove"
    /\ \E i \in 1..Len(target.wrappers) :
          /\ target.wrappers[i].dragging
          /\ target.wrappers[i].left # target.wrappers[i].scaledX
          /\ Gt(target.wrappers[i].left, Zero)
          /\ Add(target.wrappers[i].left, target.wrappers[i].width) = ContainerWidth

====
